---- MODULE Spec2Model ----
(***************************************************************************)
(* Model of the mind-map view (MindMapModal): the sync coordinator that    *)
(* merges the socket.io progress feed with the polling loop of             *)
(* api.getMindMap.  One session = one run of the [open, threadId] effect   *)
(* with open = true.  Sessions are numbered 1, 2, ... in creation order;   *)
(* a poll loop, its timer and its socket are named by their session.       *)
(* The layout engine of the same component (convertMindMapToFlow and the   *)
(* expansion toggles) is specified by LayoutSpec, further down.            *)
(***************************************************************************)
EXTENDS Integers, Sequences, FiniteSets, TLC

\* ---------------------------------------------------------------- bounds
MaxSessions == 2
NumData == 2

Sessions == 1..MaxSessions
Data == 1..NumData
Threads == {"thread-a", "thread-b"}

\* ------------------------------------------------- server and api client
\* What a request to GET /mindmap/{threadId} can meet when it is answered.
Answers ==
  {[kind |-> k, data |-> 0] : k \in {"noflow", "pending", "http_error", "network_error"}}
    \cup {[kind |-> "ready", data |-> d] : d \in Data}

\* The answers the type MindMapResponse admits: data is optional whatever
\* the status, so also status true without a data field.
AnswersOfType == Answers \cup {[kind |-> "ready_nodata", data |-> 0]}

\* The answers possible now.
AnswersNow(st) ==
  IF st = 0 THEN Answers ELSE {[kind |-> "ready", data |-> st]}

\* MindMapResponse; status and data are optional ("undefined" / 0).
MindMapResponse(mm, st, msg, d) ==
  [mind_map |-> mm, status |-> st, message |-> msg, data |-> d]

\* The message text of a 2xx answer (opaque to the client).
ServerMessage == "Mind map status"

\* The JSON body of a 2xx answer.
ResponseBody(sv) ==
  CASE sv.kind = "noflow"  -> MindMapResponse(FALSE, "undefined", ServerMessage, 0)
    [] sv.kind = "pending" -> MindMapResponse(TRUE, "false", ServerMessage, 0)
    [] sv.kind = "ready_nodata" -> MindMapResponse(TRUE, "true", ServerMessage, 0)
    [] sv.kind = "ready"   -> MindMapResponse(TRUE, "true", ServerMessage, sv.data)

\* api.getMindMap rejects when fetch rejects.
getMindMapThrows(sv) == sv.kind = "network_error"

\* api.getMindMap resolves: fallback shape on a non-OK answer, else the body.
getMindMap(sv) ==
  IF sv.kind = "http_error"
    THEN MindMapResponse(FALSE, "undefined", "Failed to fetch mind map (500)", 0)
    ELSE ResponseBody(sv)

\* JSON.stringify(r): keys in order, keys whose value is undefined omitted.
JSONstringify(r) ==
  <<"mind_map", IF r.mind_map THEN "true" ELSE "false">>
    \o (IF r.status = "undefined" THEN <<>> ELSE <<"status", r.status>>)
    \o <<"message", r.message>>
    \o (IF r.data = 0 THEN <<>> ELSE <<"data", ToString(r.data)>>)

\* Payloads of the progress event (ProgressPayload); "" = no message field.
PushMessages == {"", "Building nodes"}
\* The status / data fields a payload may carry besides (the type allows them).
PushExtras == {[status |-> "undefined", data |-> 0], [status |-> "true", data |-> 1],
               [status |-> "false", data |-> 0]}

\* ------------------------------------------------------------------ state
VARIABLES
  mounted,            \* the component is mounted
  open,               \* prop open
  threadId,           \* prop threadId
  settled,            \* environment: 0, or d when the server answers ready with d from now on
  nsess,              \* effect runs with open = true so far
  cur,                \* the run whose `cancelled` is still false, 0 = none
  fetching,           \* sessions whose initial fetch is in flight
  polls,              \* poll loops whose request is in flight
  timers,             \* poll loops whose setTimeout is pending
  pollingActiveRef,
  pollingTimeoutRef,  \* 0 = null, else the loop that made the handle
  socketRef,          \* 0 = null, else the session that made the socket
  connected,          \* sockets not yet disconnected
  listening,          \* sockets whose listeners are attached
  lastPayloadRef,
  initialFetch,       \* <<>> = null, else <<response>>
  status,
  mapData,            \* 0 = undefined
  message,
  showMessage,
  phase,              \* history: coordinator state of the current session
  stale,              \* history: poll requests that were in flight at a stop
  dropped,            \* history: <<>>, or <<s, c>>: since the current run c began, the
                      \* fetch of an earlier run s was answered (the last such s)
  mindMap,            \* <<>>, or <<m>>: the map object the layout effects were given
  requiredHeight,     \* the _requiredHeight fields left on the nodes of that object
  expandedNodes,
  nodes,
  edges,
  lastToggled,        \* history: i after a toggle of leaf i, -i after two in a row
  shown               \* history: the layouts shown before the last two toggles

syncVars == <<mounted, open, threadId, settled, nsess, cur, fetching, polls, timers,
              pollingActiveRef, pollingTimeoutRef, socketRef, connected, listening,
              lastPayloadRef, initialFetch, status, mapData, message, showMessage,
              phase, stale, dropped>>

flowVars == <<mindMap, requiredHeight, expandedNodes, nodes, edges, lastToggled, shown>>

vars == <<syncVars, flowVars>>

uiState == <<lastPayloadRef, initialFetch, status, mapData, message, showMessage>>
props == <<mounted, open, threadId>>

Init ==
  /\ mounted = TRUE
  /\ open = FALSE
  /\ threadId = "thread-a"
  /\ settled = 0
  /\ nsess = 0
  /\ cur = 0
  /\ fetching = {}
  /\ polls = {}
  /\ timers = {}
  /\ pollingActiveRef = FALSE
  /\ pollingTimeoutRef = 0
  /\ socketRef = 0
  /\ connected = {}
  /\ listening = {}
  /\ lastPayloadRef = <<>>
  /\ initialFetch = <<>>
  /\ status = "undefined"
  /\ mapData = 0
  /\ message = ""
  /\ showMessage = TRUE
  /\ phase = "closed"
  /\ stale = {}
  /\ dropped = <<>>
  /\ mindMap = <<>>
  /\ requiredHeight = <<>>
  /\ expandedNodes = {}
  /\ nodes = <<>>
  /\ edges = <<>>
  /\ lastToggled = 0
  /\ shown = <<>>

\* ------------------------------------------------------------- teardown
\* The refs and the timers / sockets they point to, as one value.
Refs ==
  [active |-> pollingActiveRef, timeoutRef |-> pollingTimeoutRef,
   socketRef |-> socketRef, timers |-> timers,
   connected |-> connected, listening |-> listening]

\* clearTimeout and pollingTimeoutRef = null only: the flag is left as it is
stopPolling_m(R) ==
  [R EXCEPT !.timers = IF R.timeoutRef # 0 THEN @ \ {R.timeoutRef} ELSE @,
            !.timeoutRef = 0]

\* pollingActiveRef.current = false; clearTimeout; pollingTimeoutRef = null
stopPolling(R) ==
  [R EXCEPT !.active = FALSE,
            !.timers = IF R.timeoutRef # 0 THEN @ \ {R.timeoutRef} ELSE @,
            !.timeoutRef = 0]

\* disconnectSocket without `socketRef.current = null`
disconnectSocket_m(R) ==
  IF R.socketRef # 0
    THEN [R EXCEPT !.listening = @ \ {R.socketRef},
                   !.connected = @ \ {R.socketRef}]
    ELSE R

\* socket.off(); socket.disconnect(); socketRef.current = null
disconnectSocket(R) ==
  IF R.socketRef # 0
    THEN [R EXCEPT !.listening = @ \ {R.socketRef},
                   !.connected = @ \ {R.socketRef},
                   !.socketRef = 0]
    ELSE R

closeEverything(R) == disconnectSocket(stopPolling(R))

effectOpenFalse(R) == disconnectSocket(stopPolling(R))

effectCleanup(R) == disconnectSocket(stopPolling(R))

\* the completed branch without `pollingActiveRef.current = false`
onProgressCompleted_m(R) ==
  LET S == [stopPolling(R) EXCEPT !.active = R.active] IN
  IF S.socketRef # 0
    THEN [S EXCEPT !.connected = @ \ {S.socketRef}, !.socketRef = 0]
    ELSE S

\* the completed branch of onProgress: disconnect() without off()
onProgressCompleted(R) ==
  LET S == stopPolling(R) IN
  IF S.socketRef # 0
    THEN [S EXCEPT !.connected = @ \ {S.socketRef}, !.socketRef = 0]
    ELSE S

SetRefs(R) ==
  /\ pollingActiveRef' = R.active
  /\ pollingTimeoutRef' = R.timeoutRef
  /\ socketRef' = R.socketRef
  /\ timers' = R.timers
  /\ connected' = R.connected
  /\ listening' = R.listening

\* A new effect run with open = true: `cancelled = false`, the fetch is issued.
StartSession ==
  /\ nsess' = nsess + 1
  /\ cur' = nsess + 1
  /\ fetching' = fetching \cup {nsess + 1}
  /\ phase' = "fetching"

NoSession ==
  /\ cur' = 0
  /\ phase' = "closed"
  /\ UNCHANGED <<nsess, fetching>>


\* ------------------------------------------------------ props and effect
\* The parent sets open = true: the effect runs, there is no cleanup to run
\* (the run with open = false returned none).
OpenDialog ==
  /\ UNCHANGED flowVars
  /\ mounted /\ ~open /\ nsess < MaxSessions
  /\ open' = TRUE
  /\ StartSession
  /\ UNCHANGED <<mounted, threadId, settled, polls, timers, pollingActiveRef,
                 pollingTimeoutRef, socketRef, connected, listening, uiState,
                 stale>>
  /\ dropped' = <<>>

\* Dialog onOpenChange(false): closeEverything(), then the parent's setter;
\* the re-render runs the cleanup of the last run and the open = false branch.
DialogClose ==
  /\ UNCHANGED flowVars
  /\ mounted /\ open
  /\ open' = FALSE
  /\ SetRefs(effectOpenFalse(effectCleanup(closeEverything(Refs))))
  /\ NoSession
  /\ stale' = polls
  /\ dropped' = <<>>
  /\ UNCHANGED <<mounted, threadId, settled, polls, uiState>>

\* The parent sets open = false without the dialog's handler.
SetOpenFalse ==
  /\ UNCHANGED flowVars
  /\ mounted /\ open
  /\ open' = FALSE
  /\ SetRefs(effectOpenFalse(effectCleanup(Refs)))
  /\ NoSession
  /\ stale' = polls
  /\ dropped' = <<>>
  /\ UNCHANGED <<mounted, threadId, settled, polls, uiState>>

\* threadId changes while open: cleanup of the last run, then a new run.
ChangeThreadOpen(t) ==
  /\ UNCHANGED flowVars
  /\ mounted /\ open /\ t # threadId /\ nsess < MaxSessions
  /\ threadId' = t
  /\ SetRefs(effectCleanup(Refs))
  /\ StartSession
  /\ stale' = polls
  /\ dropped' = <<>>
  /\ UNCHANGED <<mounted, open, settled, polls, uiState>>

\* threadId changes while closed: the open = false branch runs again.
ChangeThreadClosed(t) ==
  /\ UNCHANGED flowVars
  /\ mounted /\ ~open /\ t # threadId
  /\ threadId' = t
  /\ SetRefs(effectOpenFalse(Refs))
  /\ NoSession
  /\ stale' = polls
  /\ dropped' = <<>>
  /\ UNCHANGED <<mounted, open, settled, polls, uiState>>

\* Unmount: the cleanup of the last run, if it returned one.
Unmount ==
  /\ UNCHANGED flowVars
  /\ mounted
  /\ mounted' = FALSE
  /\ SetRefs(IF open THEN effectCleanup(Refs) ELSE Refs)
  /\ NoSession
  /\ stale' = polls
  /\ dropped' = <<>>
  /\ UNCHANGED <<open, threadId, settled, polls, uiState>>

\* ---------------------------------------------------------- initial fetch
\* `await api.getMindMap(threadId)` of the effect rejects: nothing catches it.
FetchReject(s, sv) ==
  /\ UNCHANGED flowVars
  /\ s \in fetching /\ getMindMapThrows(sv)
  /\ fetching' = fetching \ {s}
  /\ phase' = IF s = cur THEN "rejected" ELSE phase
  /\ UNCHANGED <<props, settled, nsess, cur, polls, timers, pollingActiveRef,
                 pollingTimeoutRef, socketRef, connected, listening, uiState,
                 stale, dropped>>

\* one flag for all runs, cleared when the next run starts
cancelled_m(s) == cur = 0

\* `cancelled` of run s: set by the cleanup of the run, which React runs
\* before the next run of the effect and at unmount
cancelled(s) == s # cur

\* The continuation of the initial fetch of session s; ioOk = io() did not throw.
FetchResolve(s, sv, ioOk) ==
  /\ UNCHANGED flowVars
  /\ s \in fetching /\ ~getMindMapThrows(sv)
  /\ fetching' = fetching \ {s}
  /\ LET res == getMindMap(sv) IN
     IF cancelled(s)
       THEN \* if (cancelled) return
            UNCHANGED <<polls, timers, pollingActiveRef, pollingTimeoutRef,
                        socketRef, connected, listening, uiState, phase>>
       ELSE /\ initialFetch' = <<res>>
            /\ message' = res.message
            /\ IF res.mind_map
                 THEN /\ status' = res.status
                      /\ mapData' = IF res.status = "true" /\ res.data # 0
                                      THEN res.data ELSE mapData
                      /\ IF ioOk
                           THEN /\ socketRef' = s
                                /\ connected' = connected \cup {s}
                                /\ listening' = listening \cup {s}
                           ELSE UNCHANGED <<socketRef, connected, listening>>
                      /\ pollingActiveRef' = TRUE
                      /\ polls' = polls \cup {s}   \* pollOnce(): active, so it fetches
                      /\ phase' = "polling"
                 ELSE /\ phase' = "noflow"
                      /\ UNCHANGED <<status, mapData, socketRef, connected,
                                     listening, pollingActiveRef, polls>>
            /\ UNCHANGED <<timers, pollingTimeoutRef, lastPayloadRef, showMessage>>
  /\ dropped' = IF s # cur /\ cur # 0 THEN <<s, cur>> ELSE dropped
  /\ UNCHANGED <<props, settled, nsess, cur, stale>>


\* -------------------------------------------------------------- poll loop
\* The timer of loop s fires and runs pollOnce up to its await.
TimerFire(s) ==
  /\ UNCHANGED flowVars
  /\ s \in timers
  /\ timers' = timers \ {s}
  /\ polls' = IF pollingActiveRef THEN polls \cup {s} ELSE polls
  /\ UNCHANGED <<props, settled, nsess, cur, fetching, pollingActiveRef,
                 pollingTimeoutRef, socketRef, connected, listening, uiState,
                 phase, stale, dropped>>

\* `if (pollingActiveRef.current) pollingTimeoutRef.current = setTimeout(...)`
scheduleNext(s) ==
  IF pollingActiveRef
    THEN /\ timers' = timers \cup {s}
         /\ pollingTimeoutRef' = s
    ELSE UNCHANGED <<timers, pollingTimeoutRef>>

\* The request of loop s rejects: the catch block, then the rescheduling.
PollReject(s, sv) ==
  /\ UNCHANGED flowVars
  /\ s \in polls /\ getMindMapThrows(sv)
  /\ polls' = polls \ {s}
  /\ stale' = stale \ {s}
  /\ UNCHANGED dropped
  /\ scheduleNext(s)
  /\ UNCHANGED <<props, settled, nsess, cur, fetching, pollingActiveRef,
                 socketRef, connected, listening, uiState, phase>>

\* `if (!r.mind_map)`: stop polling if the server reports no mind map flow.
noFlowStop(R) == stopPolling(R)

\* The request of loop s resolves: pollOnce from its await to its end.
PollResolve(s, sv) ==
  /\ UNCHANGED flowVars
  /\ s \in polls /\ ~getMindMapThrows(sv)
  /\ polls' = polls \ {s}
  /\ stale' = stale \ {s}
  /\ UNCHANGED dropped
  /\ LET r == getMindMap(sv)
         payload == JSONstringify(r)
     IN
     IF ~pollingActiveRef
       THEN UNCHANGED <<timers, pollingActiveRef, pollingTimeoutRef,
                        lastPayloadRef, status, mapData, phase>>
       ELSE /\ IF payload # lastPayloadRef
                 THEN /\ lastPayloadRef' = payload
                      /\ status' = r.status
                      /\ mapData' = IF r.status = "true" /\ r.data # 0
                                      THEN r.data ELSE mapData
                 ELSE UNCHANGED <<lastPayloadRef, status, mapData>>
            /\ IF ~r.mind_map
                 THEN /\ SetRefs(noFlowStop(Refs))
                      /\ phase' = "noflow"
                 ELSE /\ scheduleNext(s)
                      /\ UNCHANGED <<pollingActiveRef, phase>>
  /\ UNCHANGED <<props, settled, nsess, cur, fetching, socketRef, connected,
                 listening, initialFetch, message, showMessage>>

\* ----------------------------------------------------------- push channel
\* onProgress that also applies the status and data fields of the payload
PushEvent_m(k, msg, completed, extra) ==
  /\ UNCHANGED flowVars
  /\ k \in connected \cap listening
  /\ IF msg # ""
       THEN message' = msg
       ELSE UNCHANGED message
  /\ status' = IF extra.status # "undefined" THEN extra.status ELSE status
  /\ mapData' = IF extra.data # 0 THEN extra.data ELSE mapData
  /\ IF completed
       THEN /\ SetRefs(onProgressCompleted(Refs))
            /\ showMessage' = FALSE
            /\ phase' = "completed"
            /\ stale' = polls
            /\ UNCHANGED dropped
       ELSE /\ showMessage' = IF msg # "" THEN TRUE ELSE showMessage
            /\ UNCHANGED <<pollingActiveRef, pollingTimeoutRef, socketRef,
                           timers, connected, listening, phase, stale, dropped>>
  /\ UNCHANGED <<props, settled, nsess, cur, fetching, polls, lastPayloadRef,
                 initialFetch>>

\* onProgress(data) on socket k; the payload may carry any fields.
PushEvent(k, msg, completed, extra) ==
  /\ UNCHANGED flowVars
  /\ k \in connected \cap listening
  /\ IF msg # ""
       THEN message' = msg
       ELSE UNCHANGED message
  /\ IF completed
       THEN /\ SetRefs(onProgressCompleted(Refs))
            /\ showMessage' = FALSE
            /\ phase' = "completed"
            /\ stale' = polls
            /\ UNCHANGED dropped
       ELSE /\ showMessage' = IF msg # "" THEN TRUE ELSE showMessage
            /\ UNCHANGED <<pollingActiveRef, pollingTimeoutRef, socketRef,
                           timers, connected, listening, phase, stale, dropped>>
  /\ UNCHANGED <<props, settled, nsess, cur, fetching, polls, lastPayloadRef,
                 initialFetch, status, mapData>>

\* ------------------------------------------------------------ specification
Next ==
  \/ OpenDialog
  \/ DialogClose
  \/ SetOpenFalse
  \/ \E t \in Threads : ChangeThreadOpen(t)
  \/ \E t \in Threads : ChangeThreadClosed(t)
  \/ Unmount
  \/ \E s \in Sessions, sv \in AnswersNow(settled) : FetchReject(s, sv)
  \/ \E s \in Sessions, sv \in AnswersNow(settled), ioOk \in BOOLEAN : FetchResolve(s, sv, ioOk)
  \/ \E s \in Sessions : TimerFire(s)
  \/ \E s \in Sessions, sv \in AnswersNow(settled) : PollReject(s, sv)
  \/ \E s \in Sessions, sv \in AnswersNow(settled) : PollResolve(s, sv)
  \/ \E k \in Sessions, msg \in PushMessages, completed \in BOOLEAN,
        extra \in PushExtras : PushEvent(k, msg, completed, extra)

Spec == Init /\ [][Next]_vars

\* The coordinator with a server held to the type of the response only.
NextOfType ==
  \/ OpenDialog
  \/ DialogClose
  \/ SetOpenFalse
  \/ \E t \in Threads : ChangeThreadOpen(t)
  \/ \E t \in Threads : ChangeThreadClosed(t)
  \/ Unmount
  \/ \E s \in Sessions, sv \in AnswersOfType : FetchReject(s, sv)
  \/ \E s \in Sessions, sv \in AnswersOfType, ioOk \in BOOLEAN : FetchResolve(s, sv, ioOk)
  \/ \E s \in Sessions : TimerFire(s)
  \/ \E s \in Sessions, sv \in AnswersOfType : PollReject(s, sv)
  \/ \E s \in Sessions, sv \in AnswersOfType : PollResolve(s, sv)
  \/ \E k \in Sessions, msg \in PushMessages, completed \in BOOLEAN,
        extra \in PushExtras : PushEvent(k, msg, completed, extra)

SpecOfType == Init /\ [][NextOfType]_vars


\* Poll-only operation: the push channel delivers nothing, and at some point
\* the server settles on answering every request ready with data d.
Settle(d) ==
  /\ UNCHANGED flowVars
  /\ settled = 0
  /\ settled' = d
  /\ UNCHANGED <<props, nsess, cur, fetching, polls, timers, pollingActiveRef,
                 pollingTimeoutRef, socketRef, connected, listening, uiState,
                 phase, stale, dropped>>

NextPollOnly ==
  \/ OpenDialog
  \/ DialogClose
  \/ SetOpenFalse
  \/ \E t \in Threads : ChangeThreadOpen(t)
  \/ \E t \in Threads : ChangeThreadClosed(t)
  \/ Unmount
  \/ \E d \in Data : Settle(d)
  \/ \E s \in Sessions, sv \in AnswersNow(settled) : FetchReject(s, sv)
  \/ \E s \in Sessions, sv \in AnswersNow(settled), ioOk \in BOOLEAN : FetchResolve(s, sv, ioOk)
  \/ \E s \in Sessions : TimerFire(s)
  \/ \E s \in Sessions, sv \in AnswersNow(settled) : PollReject(s, sv)
  \/ \E s \in Sessions, sv \in AnswersNow(settled) : PollResolve(s, sv)

\* Timers fire and requests in flight are answered.
LiveSpec ==
  /\ Init
  /\ [][NextPollOnly]_vars
  /\ \A s \in Sessions :
       /\ WF_vars(TimerFire(s))
       /\ WF_vars(\E sv \in AnswersNow(settled) : PollResolve(s, sv) \/ PollReject(s, sv))
       /\ WF_vars(\E sv \in AnswersNow(settled), ioOk \in BOOLEAN :
                     FetchResolve(s, sv, ioOk) \/ FetchReject(s, sv))


\* =================================================================== layout
\* The layout engine: convertMindMapToFlow, run by the effects of the
\* component when a map arrives and when a node is toggled.
\* Lengths are whole multiples of 1 / Scale px, so that the averages of the
\* recentering pass are exact.

\* ---------------------------------------------------------------- bound
MaxNodes == 4

\* ------------------------------------------------------------ arithmetic
Max(a, b) == IF a >= b THEN a ELSE b

Min(a, b) == IF a <= b THEN a ELSE b

\* Math.ceil(a / b) for a >= 0, b > 0
Ceil(a, b) == (a + b - 1) \div b

RECURSIVE Factorial(_)
Factorial(k) == IF k <= 1 THEN 1 ELSE k * Factorial(k - 1)

\* ys.reduce((a, b) => a + b, 0)
RECURSIVE Sum(_)
Sum(q) == IF q = <<>> THEN 0 ELSE Head(q) + Sum(Tail(q))

\* the sequence f, as a tuple of its computed elements
AsTuple(f) == f \o <<>>

\* v || d
OrElse(v, d) == IF v # 0 THEN v ELSE d

\* ------------------------------------------------------------------ maps
\* A GlobalMindMap is [par, desc]: its nodes are numbered 1..Len(par) in the
\* order of the depth-first walk from the roots (the order `add` visits
\* them); par[i] is the parent of node i, 0 for a root; desc[i] is the
\* length of its description, 0 for none.
GlobalMindMap(par, desc) == [par |-> par, desc |-> desc]

\* node i and its ancestors, and 0
RECURSIVE Path(_, _)
Path(par, i) == IF i = 0 THEN {0} ELSE {i} \cup Path(par, par[i])

\* the parent vectors of the forests of n nodes
RECURSIVE Forests(_)
Forests(n) ==
  IF n = 0 THEN {<<>>}
  ELSE {Append(p, a) : p \in Forests(n - 1), a \in 0..(n - 1)}

IsDepthFirst(par) == \A i \in 1..Len(par) : par[i] \in Path(par, i - 1)

\* description lengths: 7 lines, and enough lines to reach MAX_HEIGHT
DescLens == {500, 2000}

\* every forest of up to MaxNodes nodes, the descriptions of one length
SmallMaps ==
  {GlobalMindMap(p, [i \in 1..Len(p) |-> d]) :
     p \in {f \in UNION {Forests(n) : n \in 0..MaxNodes} : IsDepthFirst(f)},
     d \in DescLens}

\* a root with three leaves and a chain of four below it; node 7 of the
\* chain has a long description
ChainMap ==
  GlobalMindMap(<<0, 1, 1, 1, 1, 5, 6, 7>>, <<0, 0, 0, 0, 0, 0, 2000, 0>>)

Maps == SmallMaps \cup {ChainMap}

MaxMapSize == Max(MaxNodes, Len(ChainMap.par))

\* Every length of the layout is held multiplied by Scale, so that the
\* halves (allocatedH / 2, h / 2) and the averages over the children of a
\* node are whole numbers; the arithmetic is exact, rounding of the
\* floating-point numbers of the code is not modelled.
Scale == Factorial(MaxMapSize - 1)

ids(m) == 1..Len(m.par)

\* n.children, as ids
children(m, i) ==
  SelectSeq([j \in 1..Len(m.par) |-> j], LAMBDA j : m.par[j] = i)

\* mindMap.roots
roots(m) == children(m, 0)

\* every node below a root at level 1
RECURSIVE levelsFrom_m(_, _)
levelsFrom_m(par, lv) ==
  IF Len(lv) = Len(par) THEN lv
  ELSE LET p == par[Len(lv) + 1] IN
       levelsFrom_m(par, Append(lv, IF p = 0 THEN 0 ELSE 1))

\* level of every node (the `level` argument of add)
RECURSIVE levelsFrom(_, _)
levelsFrom(par, lv) ==
  IF Len(lv) = Len(par) THEN lv
  ELSE LET p == par[Len(lv) + 1] IN
       levelsFrom(par, Append(lv, IF p = 0 THEN 0 ELSE lv[p] + 1))

levelOf(m) == levelsFrom(m.par, <<>>)

\* A map just parsed from a response: no node has a _requiredHeight yet.
FreshObject(m) == [i \in ids(m) |-> 0]

\* m2 is m with one more node
Grows(m, m2) ==
  /\ Len(m2.par) = Len(m.par) + 1
  /\ SubSeq(m2.par, 1, Len(m.par)) = m.par
  /\ SubSeq(m2.desc, 1, Len(m.par)) = m.desc

\* ----------------------------------------------------------- size estimate
baseCollapsed == 72
charsPerLine == 80
lineHeight == 18
padding == 36
SAFETY == 28
MAX_DESC_HEIGHT == 220
MAX_HEIGHT == baseCollapsed + padding + MAX_DESC_HEIGHT

\* the estimate without the cap of MAX_HEIGHT
estimateHeight_m(len, isExpanded) ==
  IF ~isExpanded \/ len = 0 THEN baseCollapsed
  ELSE baseCollapsed + padding + Ceil(len, charsPerLine) * lineHeight + SAFETY

\* estimateSelfHeight of a node with a description of length len
estimateHeight(len, isExpanded) ==
  IF ~isExpanded \/ len = 0 THEN baseCollapsed
  ELSE LET lines == Ceil(len, charsPerLine)
           raw == baseCollapsed + padding + lines * lineHeight + SAFETY
       IN Min(raw, MAX_HEIGHT)

estimateSelfHeight(m, E, i) == estimateHeight(m.desc[i], i \in E)

minGap == 48

\* calcHeight with a gap between the children only: one less than children
RECURSIVE calcHeight_m(_, _, _)
calcHeight_m(m, E, i) ==
  LET ch == children(m, i) IN
  IF Len(ch) = 0
    THEN Max(100, estimateSelfHeight(m, E, i))
    ELSE LET total == Sum(AsTuple([k \in 1..Len(ch) |-> calcHeight_m(m, E, ch[k])]))
             self == estimateSelfHeight(m, E, i)
             childrenSpace == Max(total + (Len(ch) - 1) * minGap, 100)
         IN Max(self, childrenSpace)

\* the value calcHeight(n) returns
RECURSIVE calcHeight(_, _, _)
calcHeight(m, E, i) ==
  LET ch == children(m, i) IN
  IF Len(ch) = 0
    THEN Max(100, estimateSelfHeight(m, E, i))
    ELSE LET total == Sum(AsTuple([k \in 1..Len(ch) |-> calcHeight(m, E, ch[k])]))
             self == estimateSelfHeight(m, E, i)
             childrenSpace == Max(total + Len(ch) * minGap, 100)
         IN Max(self, childrenSpace)

\* roots.forEach(calcHeight) that keeps a _requiredHeight a node already has
storeRequiredHeight_m(m, E, cache) ==
  [i \in DOMAIN cache |-> IF cache[i] # 0 THEN cache[i] ELSE calcHeight(m, E, i)]

\* roots.forEach(calcHeight): `n._requiredHeight = h` on every node visited,
\* which is every node of the map.
storeRequiredHeight(m, E, cache) ==
  AsTuple([i \in DOMAIN cache |-> calcHeight(m, E, i)])

\* ---------------------------------------------------------------- placement
horizontalSpacing == 520
baseX == 200

\* every node given the same height, whatever its _requiredHeight
allocatedH_m(m, req, i) == 100

\* the height add is given for node i: `_requiredHeight || 100`, `|| 200` for a root
allocatedH(m, req, i) ==
  IF m.par[i] = 0 THEN OrElse(req[i], 200) ELSE OrElse(req[i], 100)

\* the allocatedY add is given for every node: a root starts 50 below the
\* band of the root before it (the first at 50), a child where the band of
\* the sibling before it ends (the first at the allocatedY of its parent).
RECURSIVE allocateFrom(_, _, _)
allocateFrom(m, req, ay) ==
  IF Len(ay) = Len(m.par) THEN ay
  ELSE LET i == Len(ay) + 1
           before == {j \in 1..Len(ay) : m.par[j] = m.par[i]}
           prev == CHOOSE j \in before : \A k \in before : k <= j
           here == IF before # {}
                     THEN ay[prev] + allocatedH(m, req, prev)
                            + (IF m.par[i] = 0 THEN 50 ELSE 0)
                     ELSE IF m.par[i] = 0 THEN 50 ELSE ay[m.par[i]]
       IN allocateFrom(m, req, Append(ay, here))

allocatedY(m, req) == allocateFrom(m, req, <<>>)

\* every node at the top of its band
placedY_m(m, req) ==
  LET ay == allocatedY(m, req) IN
  AsTuple([i \in 1..Len(m.par) |-> Scale * ay[i]])

\* position.y of every node as add sets it: allocatedY + allocatedH / 2
placedY(m, req) ==
  LET ay == allocatedY(m, req) IN
  AsTuple([i \in 1..Len(m.par) |->
     Scale * ay[i] + (Scale * allocatedH(m, req, i)) \div 2])

\* ----------------------------------------------------------- collision pass
minVerticalGap == 52

\* the estimate without the floor of 100
heightOf_m(m, E, i) == estimateSelfHeight(m, E, i)

heightOf(m, E, i) == Max(100, estimateSelfHeight(m, E, i))

\* j is i or below i
RECURSIVE InSubtree(_, _, _)
InSubtree(m, i, j) ==
  j = i \/ (j > i /\ m.par[j] # 0 /\ InSubtree(m, i, m.par[j]))

\* a shift of the node alone, its children left where they are
applyShiftRec_m(m, y, i, dy) ==
  AsTuple([j \in DOMAIN y |-> IF j = i THEN y[j] + dy ELSE y[j]])

applyShiftRec(m, y, i, dy) ==
  AsTuple([j \in DOMAIN y |-> IF InSubtree(m, i, j) THEN y[j] + dy ELSE y[j]])

\* levelMap.get(lvl).slice().sort((a, b) => ya - yb): by y, ties in the
\* order of the list (the sort is stable), which is the order of the ids.
sortByY(S, y) ==
  LET rank(a) ==
        Cardinality({b \in S : y[b] < y[a] \/ (y[b] = y[a] /\ b < a)}) + 1
  IN [k \in 1..Cardinality(S) |-> CHOOSE a \in S : rank(a) = k]

\* the loop over the sorted ids of one level, from the k-th on;
\* prevBottom is <<>> for -Infinity
RECURSIVE collideFrom(_, _, _, _, _, _)
collideFrom(m, E, y, sorted, k, prevBottom) ==
  IF k > Len(sorted) THEN y
  ELSE LET id == sorted[k]
           h == Scale * heightOf(m, E, id)
           top == y[id] - h \div 2
           dy == IF prevBottom # <<>> /\ top < prevBottom[1] + Scale * minVerticalGap
                   THEN prevBottom[1] + Scale * minVerticalGap - top
                   ELSE 0
       IN collideFrom(m, E, IF dy # 0 THEN applyShiftRec(m, y, id, dy) ELSE y,
                      sorted, k + 1, <<top + dy + h>>)

\* Math.max(...levels), 0 when there is none; lv is levelOf(m)
maxLevel(m, lv) ==
  IF Len(m.par) = 0 THEN 0
  ELSE CHOOSE x \in {lv[i] : i \in ids(m)} : \A i \in ids(m) : lv[i] <= x

\* the loop over the levels, from lvl to last
RECURSIVE collideLevels(_, _, _, _, _, _)
collideLevels(m, E, lv, y, lvl, last) ==
  IF lvl > last THEN y
  ELSE LET S == {i \in ids(m) : lv[i] = lvl} IN
       CHOOSE r \in {collideLevels(m, E, lv, y2, lvl + 1, last) :
                       y2 \in {collideFrom(m, E, y, sortByY(S, y), 1, <<>>)}} : TRUE

runCollisionPass(m, E, y) ==
  IF Len(m.par) = 0 THEN y
  ELSE LET lv == levelOf(m) IN collideLevels(m, E, lv, y, 0, maxLevel(m, lv))

\* The inner loop of runCollisionPass from the k-th id on, with a record of
\* its calls of applyShiftRec: st.y are the positions, st.shifts the calls
\* so far, each with the id, dy and the positions before and after it.
RECURSIVE collideLogFrom(_, _, _, _, _, _)
collideLogFrom(m, E, st, sorted, k, prevBottom) ==
  IF k > Len(sorted) THEN st
  ELSE LET id == sorted[k]
           h == Scale * heightOf(m, E, id)
           top == st.y[id] - h \div 2
           dy == IF prevBottom # <<>> /\ top < prevBottom[1] + Scale * minVerticalGap
                   THEN prevBottom[1] + Scale * minVerticalGap - top
                   ELSE 0
       IN CHOOSE r \in {collideLogFrom(m, E, st2, sorted, k + 1, <<top + dy + h>>) :
                          st2 \in {IF dy = 0 THEN st
                                   ELSE LET y2 == applyShiftRec(m, st.y, id, dy) IN
                                        [y |-> y2,
                                         shifts |-> Append(st.shifts,
                                           [id |-> id, dy |-> dy, from |-> st.y, to |-> y2])]}} :
            TRUE

\* the levels lvl to last of the pass, with the record of the calls
RECURSIVE collideLogLevels(_, _, _, _, _, _)
collideLogLevels(m, E, lv, st, lvl, last) ==
  IF lvl > last THEN st
  ELSE LET S == {i \in ids(m) : lv[i] = lvl} IN
       CHOOSE r \in {collideLogLevels(m, E, lv, st2, lvl + 1, last) :
                       st2 \in {collideLogFrom(m, E, st, sortByY(S, st.y), 1, <<>>)}} : TRUE

\* runCollisionPass on the positions y: the positions it leaves and its
\* calls of applyShiftRec
passWithShifts(m, E, y) ==
  IF Len(m.par) = 0 THEN [y |-> y, shifts |-> <<>>]
  ELSE LET lv == levelOf(m) IN
       collideLogLevels(m, E, lv, [y |-> y, shifts |-> <<>>], 0, maxLevel(m, lv))

\* --------------------------------------------------------------- recentering
\* one level of the recentering loop: every node of the level that has
\* children moves to the average y of its children
recenterLevel(m, lv, y, lvl) ==
  AsTuple([i \in DOMAIN y |->
     LET kids == children(m, i) IN
     IF lv[i] = lvl /\ Len(kids) > 0
       THEN Sum([k \in 1..Len(kids) |-> y[kids[k]]]) \div Len(kids)
       ELSE y[i]])

\* the loop with the levels in increasing order
RECURSIVE recenterFrom_m(_, _, _, _)
recenterFrom_m(m, lv, y, lvl) ==
  IF lvl < 0 THEN y
  ELSE LET up == maxLevel(m, lv) - 1 - lvl IN
       recenterFrom_m(m, lv, recenterLevel(m, lv, y, up), lvl - 1)

\* for (let lvl = maxLevel - 1; lvl >= 0; lvl--), from lvl on
RECURSIVE recenterFrom(_, _, _, _)
recenterFrom(m, lv, y, lvl) ==
  IF lvl < 0 THEN y
  ELSE CHOOSE r \in {recenterFrom(m, lv, y2, lvl - 1) :
                       y2 \in {recenterLevel(m, lv, y, lvl)}} : TRUE

recenter(m, y) ==
  LET lv == levelOf(m) IN recenterFrom(m, lv, y, maxLevel(m, lv) - 1)

\* ------------------------------------------------------ convertMindMapToFlow
\* The steps run one after the other, each on the positions the step before
\* it left: `{F(v) : v \in {e}}` computes e, then F of its value.
\* y of every node after the first collision pass and the recentering
recenteredY(m, E, req) ==
  CHOOSE r \in {recenter(m, y1) :
                  y1 \in {runCollisionPass(m, E, y0) : y0 \in {placedY(m, req)}}} : TRUE

\* without the second collision pass
finalY_m(m, E, req) == recenteredY(m, E, req)

\* y of every node at the end
finalY(m, E, req) ==
  CHOOSE r \in {runCollisionPass(m, E, y2) : y2 \in {recenteredY(m, E, req)}} : TRUE

\* the steps of convertMindMapToFlow after the placement: the first pass,
\* the recentering, the second pass
passesFromRecentered(m, E, y0, p1, y2) ==
  [placed |-> y0, first |-> p1, recentered |-> y2,
   second |-> passWithShifts(m, E, y2)]

passesFromFirst(m, E, y0, p1) ==
  CHOOSE r \in {passesFromRecentered(m, E, y0, p1, y2) :
                  y2 \in {recenter(m, p1.y)}} : TRUE

passesFromPlaced(m, E, y0) ==
  CHOOSE r \in {passesFromFirst(m, E, y0, p1) :
                  p1 \in {passWithShifts(m, E, y0)}} : TRUE

passesOf(m, E, req) ==
  CHOOSE r \in {passesFromPlaced(m, E, y0) : y0 \in {placedY(m, req)}} : TRUE

\* the Node add pushes for i at level lvl, with its final y
FlowNode(i, lvl, y, isExpanded) ==
  [id |-> i,
   position |-> [x |-> Scale * (baseX + lvl * horizontalSpacing), y |-> y],
   level |-> lvl,
   isExpanded |-> isExpanded]

\* the Edge add pushes for a node i at level lvl that has a parent
FlowEdge(parentId, i, lvl) ==
  [id |-> <<"e", parentId, i>>, source |-> parentId, target |-> i,
   animated |-> lvl = 1]

\* convertMindMapToFlow(mindMap) with expandedNodes = E, on a map object
\* whose nodes carry the _requiredHeight fields `cache`: what it leaves on
\* the object and what it passes to setNodes and setEdges.
convertMindMapToFlow(m, E, cache) ==
  LET req == storeRequiredHeight(m, E, cache)
      y == finalY(m, E, req)
      lv == levelOf(m)
      withParent == SelectSeq([j \in 1..Len(m.par) |-> j], LAMBDA j : m.par[j] # 0)
  IN [requiredHeight |-> req,
      nodes |-> [i \in 1..Len(m.par) |-> FlowNode(i, lv[i], y[i], i \in E)],
      edges |-> [k \in 1..Len(withParent) |->
                   FlowEdge(m.par[withParent[k]], withParent[k], lv[withParent[k]])]]

\* translateExtent with margins of 100 on every side
translateExtent_m(nds) ==
  IF Len(nds) = 0 THEN <<>>
  ELSE LET xs == {nds[k].position.x : k \in 1..Len(nds)}
           ys == {nds[k].position.y : k \in 1..Len(nds)}
           lo(S) == CHOOSE v \in S : \A w \in S : v <= w
           hi(S) == CHOOSE v \in S : \A w \in S : v >= w
       IN <<<<lo(xs) - Scale * 100, lo(ys) - Scale * 100>>,
            <<hi(xs) + Scale * 100, hi(ys) + Scale * 100>>>>

\* translateExtent: <<>> for undefined, else <<<<minX, minY>>, <<maxX, maxY>>>>
translateExtent(nds) ==
  IF Len(nds) = 0 THEN <<>>
  ELSE LET xs == {nds[k].position.x : k \in 1..Len(nds)}
           ys == {nds[k].position.y : k \in 1..Len(nds)}
           lo(S) == CHOOSE v \in S : \A w \in S : v <= w
           hi(S) == CHOOSE v \in S : \A w \in S : v >= w
       IN <<<<lo(xs) - Scale * 300, lo(ys) - Scale * 300>>,
            <<hi(xs) + Scale * 800, hi(ys) + Scale * 300>>>>

\* ------------------------------------------------------------------ effects
\* setMapData(m) by the coordinator, then the effect on [mapData,
\* convertMindMapToFlow].  m is a new object: the first map, the same map
\* delivered again, or the map grown by a node.  expandedNodes is kept.
RebuildGraph(m) ==
  /\ IF mindMap = <<>> THEN TRUE ELSE m = mindMap[1] \/ Grows(mindMap[1], m)
  /\ \E flow \in {convertMindMapToFlow(m, expandedNodes, FreshObject(m))} :
     /\ mindMap' = <<m>>
     /\ requiredHeight' = flow.requiredHeight
     /\ nodes' = flow.nodes
     /\ edges' = flow.edges
  /\ lastToggled' = 0
  /\ shown' = <<>>
  /\ UNCHANGED <<expandedNodes, syncVars>>

\* an updater that only ever adds the id
toggled_m(prev, id) == prev \cup {id}

\* the updater onToggle passes to setExpandedNodes
toggled(prev, id) == IF id \in prev THEN prev \ {id} ELSE prev \cup {id}

\* a click that only sets the isExpanded flags of the nodes shown (what the
\* effect on expandedNodes does without mapData), with no new layout
onToggle_m(i) ==
  /\ mindMap # <<>>
  /\ i \in 1..Len(nodes)
  /\ mindMap[1].desc[i] # 0
  /\ expandedNodes' = toggled(expandedNodes, i)
  /\ nodes' = [n \in 1..Len(nodes) |->
                 [nodes[n] EXCEPT !.isExpanded = (n \in toggled(expandedNodes, i))]]
  /\ lastToggled' = i
  /\ shown' = <<[nodes |-> nodes, edges |-> edges]>>
  /\ UNCHANGED <<mindMap, requiredHeight, edges, syncVars>>

\* A click on node i: onToggle, when the node has a description.  The new
\* expandedNodes runs both effects, each calling convertMindMapToFlow on the
\* same map object.
onToggle(i) ==
  /\ mindMap # <<>>
  /\ i \in 1..Len(nodes)
  /\ mindMap[1].desc[i] # 0
  /\ LET m == mindMap[1]
         ns == toggled(expandedNodes, i)
         now == [nodes |-> nodes, edges |-> edges]
     IN
     \E first \in {convertMindMapToFlow(m, ns, requiredHeight)} :
     \E flow \in {convertMindMapToFlow(m, ns, first.requiredHeight)} :
     /\ expandedNodes' = ns
     /\ requiredHeight' = flow.requiredHeight
     /\ nodes' = flow.nodes
     /\ edges' = flow.edges
     /\ IF Len(children(m, i)) # 0
          THEN lastToggled' = 0 /\ shown' = <<>>
          ELSE IF lastToggled \in {i, -i}
                 THEN lastToggled' = -i /\ shown' = <<now, shown[1]>>
                 ELSE lastToggled' = i /\ shown' = <<now>>
  /\ UNCHANGED <<mindMap, syncVars>>

LayoutNext ==
  \/ \E m \in Maps : RebuildGraph(m)
  \/ \E i \in 1..MaxMapSize : onToggle(i)

LayoutSpec == Init /\ [][LayoutNext]_vars


\* ------------------------------------------------------------------ claims
\* The poll loop of session s has been stopped: its effect run was cleaned
\* up, or the current session was halted by completion or by a no-flow answer.
Stopped(s) ==
  /\ s <= nsess
  /\ \/ s # cur
     \/ phase \in {"completed", "noflow"}

\* C1: a poll request that was in flight when the coordinator was stopped
\* changes none of status, mapData, message and the last-payload hash when
\* its response arrives, whatever happened in between.
C1_LateResponseChangesNothing ==
  [][\A s \in stale, sv \in Answers :
       PollResolve(s, sv) \/ PollReject(s, sv)
         => UNCHANGED <<status, mapData, message, lastPayloadRef>>]_vars

\* C2: at most one poll request is in flight and at most one poll timer is
\* pending, at any time.  A request abandoned at a stop is not counted (stop
\* does not abort it); a stop clears the timer, so every pending timer counts.
C2_TicksNeverOverlap ==
  /\ Cardinality(polls \ stale) <= 1
  /\ Cardinality(timers) <= 1

\* C3: no continuation of a stopped polling session issues a poll request or
\* schedules a timer, even if a new session has started in the meantime.
C3_NoResurrection ==
  [][\A s \in Sessions :
       Stopped(s) => /\ s \in polls' => s \in polls
                     /\ s \in timers' => s \in timers]_vars


\* C4: once onProgress has processed completed = true, no poll request is
\* issued for as long as the session lasts (the call count stays put): no
\* loop enters `polls`.
C4_NoPollAfterCompleted ==
  [][phase = "completed" /\ cur' = cur => polls' \subseteq polls]_vars

\* completed arrived while the session's own request was in flight
C4_Witness == phase = "completed" /\ cur \in stale

\* The teardown each trigger runs.
Triggers == {"closeEverything", "openFalse", "cleanup", "completed"}

RunTrigger(t, R) ==
  CASE t = "closeEverything" -> closeEverything(R)
    [] t = "openFalse"       -> effectOpenFalse(R)
    [] t = "cleanup"         -> effectCleanup(R)
    [] t = "completed"       -> onProgressCompleted(R)

\* S is R torn down: flag false, handle null and its timer cleared, socket
\* reference null and its socket disconnected.
TornDown(S, R) ==
  /\ ~S.active
  /\ S.timeoutRef = 0
  /\ R.timeoutRef \notin S.timers
  /\ S.socketRef = 0
  /\ R.socketRef \notin S.connected

\* C5: stop is idempotent: from every reachable state, any trigger tears the
\* refs down, a second trigger of any kind changes nothing more, the socket
\* the reference holds is one that is still connected (nothing is torn down
\* twice), and a closed or completed coordinator is torn down.
C5_StopIdempotent ==
  /\ \A t1 \in Triggers :
       LET S == RunTrigger(t1, Refs) IN
       /\ TornDown(S, Refs)
       /\ \A t2 \in Triggers : RunTrigger(t2, S) = S
  /\ socketRef # 0 => socketRef \in connected
  /\ phase \in {"closed", "completed"} =>
       /\ ~pollingActiveRef
       /\ pollingTimeoutRef = 0
       /\ socketRef = 0
       /\ connected = {}

\* completed tore the session down (its listeners stay on the disconnected
\* socket), then the dialog was closed: closeEverything, cleanup and the
\* open = false branch ran on top.
C5_Witness == phase = "closed" /\ ~open /\ listening # {} /\ stale # {}

\* C6: a progress event never changes status or mapData, whatever its
\* payload carries; a settled poll request never changes message.
C6_DisjointAuthority ==
  [][/\ \/ UNCHANGED <<status, mapData>>
        \/ ~\E k \in Sessions, msg \in PushMessages, completed \in BOOLEAN,
              extra \in PushExtras : PushEvent(k, msg, completed, extra)
     /\ \/ UNCHANGED message
        \/ ~\E s \in Sessions, sv \in Answers :
              PollResolve(s, sv) \/ PollReject(s, sv)]_vars

\* a progress message is shown while polls have set status and data
C6_Witness ==
  /\ message \in PushMessages \ {""}
  /\ status = "true" /\ mapData # 0 /\ lastPayloadRef # <<>>

\* C7: a poll response reporting ready with data, processed while the loop is
\* active, leaves status true and mapData equal to its data.
C7_ReadyPollApplied ==
  [][\A s \in Sessions, sv \in Answers :
       sv.kind = "ready" /\ pollingActiveRef /\ PollResolve(s, sv)
         => status' = "true" /\ mapData' = sv.data]_vars

\* C8: a failed poll request (a rejected fetch or a non-OK answer) of an
\* active loop changes none of status, mapData, message and the hash, leaves
\* the loop active and schedules the next poll.
C8_FailureSwallowed ==
  [][\A s \in Sessions, sv \in Answers :
       /\ sv.kind \in {"http_error", "network_error"}
       /\ pollingActiveRef
       /\ PollResolve(s, sv) \/ PollReject(s, sv)
       => /\ UNCHANGED <<status, mapData, message, lastPayloadRef>>
          /\ pollingActiveRef'
          /\ s \in timers' /\ pollingTimeoutRef' = s]_vars

\* C9: with no progress event ever delivered, if from some point on the view
\* stays open on a session whose poll loop runs and every answer is ready with
\* data d, then status is true and mapData is d at some later point.
C9_PollOnlyReadiness ==
  \A d \in Data :
    <>[](open /\ phase = "polling" /\ settled = d)
      => []<>(status = "true" /\ mapData = d)

NoFlowIssuesNothing ==
  [][/\ phase' = "noflow" =>
          /\ ~pollingActiveRef'
          /\ pollingTimeoutRef' = 0
          /\ pollingTimeoutRef \notin timers'
     /\ phase = "noflow" /\ cur' = cur => polls' \subseteq polls]_vars

\* C11: a poll response of an active loop whose status and data equal those
\* last applied (status and mapData as they stand) invokes neither setStatus
\* nor setMapData: the branch that calls them, which also stores the payload
\* in lastPayloadRef, is not taken, so no re-layout follows.
C11_UnchangedPollNoUpdate ==
  [][\A s \in Sessions, sv \in Answers :
       /\ pollingActiveRef
       /\ PollResolve(s, sv)
       /\ getMindMap(sv).data # 0
       /\ getMindMap(sv).status = status
       /\ getMindMap(sv).data = mapData
       => lastPayloadRef' = lastPayloadRef]_vars

\* -------------------------------------------------------- layout claims
\* |a|
Abs(a) == IF a >= 0 THEN a ELSE -a

\* C12: in the layout shown, every two distinct nodes of one level are at
\* least the sum of their half heights plus the gap of the collision pass
\* apart, centre to centre; the height is the one heightOf assumes.  The
\* gap of the pass (minVerticalGap) is not below minGap.
C12_SameLevelSeparated ==
  mindMap # <<>> =>
    \A a, b \in 1..Len(nodes) :
      a # b /\ nodes[a].level = nodes[b].level =>
        2 * Abs(nodes[a].position.y - nodes[b].position.y)
          >= Scale * (heightOf(mindMap[1], expandedNodes, a)
                        + heightOf(mindMap[1], expandedNodes, b))
               + 2 * Scale * minVerticalGap

\* an expanded node and its neighbour of the same level exactly that far apart
C12_Witness ==
  /\ mindMap # <<>>
  /\ minVerticalGap >= minGap
  /\ \E a, b \in 1..Len(nodes) :
       /\ a # b /\ nodes[a].level = nodes[b].level
       /\ a \in expandedNodes
       /\ 2 * Abs(nodes[a].position.y - nodes[b].position.y)
            = Scale * (heightOf(mindMap[1], expandedNodes, a)
                         + heightOf(mindMap[1], expandedNodes, b))
                + 2 * Scale * minVerticalGap

\* C13: after two toggles in a row of one leaf, the layout shown (every
\* node with its position, and every edge) is the layout that was shown
\* before the two toggles.
C13_ToggleTwiceRestores ==
  lastToggled < 0 =>
    /\ Len(shown) = 2
    /\ nodes = shown[2].nodes
    /\ edges = shown[2].edges

\* a leaf toggled twice, the layout in between having moved another node
C13_Witness ==
  /\ lastToggled < 0
  /\ -lastToggled \notin expandedNodes
  /\ Len(children(mindMap[1], -lastToggled)) = 0
  /\ \E j \in 1..Len(nodes) :
       /\ j # -lastToggled
       /\ shown[1].nodes[j].position.y # nodes[j].position.y
       /\ shown[2].nodes[j].position.y = nodes[j].position.y

\* the children of every parent are shown by increasing y, in the order of
\* the parent's child list (the order of their ids)
SiblingsInOrder(m, nds) ==
  \A a, b \in 1..Len(nds) :
    a < b /\ m.par[a] # 0 /\ m.par[a] = m.par[b] =>
      nds[a].position.y < nds[b].position.y

\* C14: a toggle of one node (the only step that changes expandedNodes)
\* leaves the children of every parent in the order of the child list, top
\* to bottom, before it and after it.
C14_ToggleKeepsSiblingOrder ==
  [][expandedNodes' # expandedNodes =>
       /\ SiblingsInOrder(mindMap[1], nodes)
       /\ SiblingsInOrder(mindMap[1], nodes')]_vars

\* one root with three leaf children, all collapsed, is what is shown
ThreeCollapsedChildren ==
  /\ mindMap # <<>>
  /\ mindMap[1].par = <<0, 1, 1, 1>>
  /\ expandedNodes = {}

\* C15 as stated: with one root and three collapsed leaf children, the
\* distance from the centre of a child to the centre of the next is the
\* collapsed baseline height plus minGap.
C15_PitchBaselinePlusMinGap ==
  ThreeCollapsedChildren =>
    \A k \in 2..3 :
      nodes[k + 1].position.y - nodes[k].position.y
        = Scale * (baseCollapsed + minGap)

\* C15, amended: that distance is the height the collision pass assumes for
\* a collapsed node (the baseline, but not less than 100) plus
\* the gap of the collision pass (minVerticalGap).
C15_PitchHeightPlusGap ==
  ThreeCollapsedChildren =>
    \A k \in 2..3 :
      nodes[k + 1].position.y - nodes[k].position.y
        = Scale * (Max(100, baseCollapsed) + minVerticalGap)

\* the three children 152 apart, the root level with the middle one
C15_Witness ==
  /\ ThreeCollapsedChildren
  /\ nodes[3].position.y - nodes[2].position.y = Scale * 152
  /\ nodes[4].position.y - nodes[3].position.y = Scale * 152
  /\ nodes[1].position.y = nodes[3].position.y

\* minWidth and maxWidth of the node style
nodeWidths(isExpanded) == IF isExpanded THEN {320, 420} ELSE {220, 280}

\* heights estimateSelfHeight returns: collapsed, and expanded with a
\* description of 0 to 15 lines or of one of the lengths of the maps
nodeHeights(isExpanded) ==
  {estimateHeight(len, isExpanded) :
     len \in {charsPerLine * k : k \in 0..15} \cup DescLens}

\* C16: when there are nodes, translateExtent contains the rectangle
\* [x - w/2, x + w/2] x [y - h/2, y + h/2] of every node, for every width w
\* its style allows and every height h the estimate can give it.
C16_ExtentContainsNodes ==
  Len(nodes) # 0 =>
    LET ext == translateExtent(nodes) IN
    \A k \in 1..Len(nodes) :
      \A w \in nodeWidths(nodes[k].isExpanded),
         h \in nodeHeights(nodes[k].isExpanded) :
        /\ 2 * ext[1][1] <= 2 * nodes[k].position.x - Scale * w
        /\ 2 * ext[2][1] >= 2 * nodes[k].position.x + Scale * w
        /\ 2 * ext[1][2] <= 2 * nodes[k].position.y - Scale * h
        /\ 2 * ext[2][2] >= 2 * nodes[k].position.y + Scale * h

\* several nodes, the lowest of them expanded to the greatest height
C16_Witness ==
  /\ Len(nodes) > 1
  /\ MAX_HEIGHT \in nodeHeights(TRUE)
  /\ \E k \in 1..Len(nodes) :
       /\ nodes[k].isExpanded
       /\ heightOf(mindMap[1], expandedNodes, k) = MAX_HEIGHT
       /\ \A j \in 1..Len(nodes) : nodes[j].position.y <= nodes[k].position.y
       /\ translateExtent(nodes)[2][2] = nodes[k].position.y + Scale * 300

\* C17: the layout shown, whatever runs came before it, is the layout a run
\* on a map object fresh from a response gives for the same map and the
\* same expandedNodes (positions, levels, isExpanded and edges), and so is
\* the layout of one more run on the object as the earlier runs left it.
C17_LayoutDeterministic ==
  mindMap # <<>> =>
    LET fresh == convertMindMapToFlow(mindMap[1], expandedNodes,
                                      FreshObject(mindMap[1]))
        again == convertMindMapToFlow(mindMap[1], expandedNodes, requiredHeight)
    IN /\ nodes = fresh.nodes
       /\ edges = fresh.edges
       /\ again.nodes = fresh.nodes
       /\ again.edges = fresh.edges

\* a layout computed on an object whose _requiredHeight values, left by the
\* run before the last toggle, were not those of the present layout
C17_Witness ==
  /\ mindMap # <<>>
  /\ lastToggled > 0
  /\ shown[1].nodes # nodes
  /\ storeRequiredHeight(mindMap[1], toggled(expandedNodes, lastToggled),
                         requiredHeight) # requiredHeight

\* C18: a map without roots shows no node and no edge and has no
\* translateExtent; a map of one root without children shows one node, at
\* x = baseX and y = 50 (where the first root band starts) plus half its
\* required height, and no edge.
C18_DegenerateInputs ==
  mindMap # <<>> =>
    /\ Len(mindMap[1].par) = 0 =>
         /\ nodes = <<>>
         /\ edges = <<>>
         /\ translateExtent(nodes) = <<>>
    /\ mindMap[1].par = <<0>> =>
         /\ Len(nodes) = 1
         /\ edges = <<>>
         /\ requiredHeight[1]
              = Max(100, estimateSelfHeight(mindMap[1], expandedNodes, 1))
         /\ nodes[1].position.x = Scale * baseX
         /\ 2 * nodes[1].position.y = 2 * Scale * 50 + Scale * requiredHeight[1]

\* a single root, expanded: required height 262, shown at (200, 181)
C18_Witness ==
  /\ mindMap # <<>>
  /\ mindMap[1].par = <<0>>
  /\ expandedNodes = {1}
  /\ requiredHeight = <<262>>
  /\ nodes[1].position = [x |-> Scale * 200, y |-> Scale * 181]

\* the map without roots, loaded
C18_EmptyMapShown ==
  /\ mindMap # <<>>
  /\ Len(mindMap[1].par) = 0
  /\ nodes = <<>>

\* the sum of the _requiredHeight of the children of i
childrenHeight(m, req, i) ==
  LET ch == children(m, i) IN Sum(AsTuple([k \in 1..Len(ch) |-> req[ch[k]]]))

\* C19 as stated: the _requiredHeight of a leaf is its own height, at least
\* 100; that of a node with k children is the greater of its own height and
\* the sum of the _requiredHeight of its children plus (k - 1) * minGap.
C19_SizingGapsBetweenChildren ==
  mindMap # <<>> =>
    LET m == mindMap[1] IN
    \A i \in 1..Len(m.par) :
      LET k == Len(children(m, i))
          self == estimateSelfHeight(m, expandedNodes, i)
      IN requiredHeight[i] =
           IF k = 0 THEN Max(100, self)
           ELSE Max(self, childrenHeight(m, requiredHeight, i) + (k - 1) * minGap)

\* C19, amended: for a node with k children the sum is increased by
\* k * minGap, one gap for every child.
C19_SizingGapPerChild ==
  mindMap # <<>> =>
    LET m == mindMap[1] IN
    \A i \in 1..Len(m.par) :
      LET k == Len(children(m, i))
          self == estimateSelfHeight(m, expandedNodes, i)
      IN requiredHeight[i] =
           IF k = 0 THEN Max(100, self)
           ELSE Max(self, childrenHeight(m, requiredHeight, i) + k * minGap)

\* a node sized by its children above a node sized by its own height
C19_Witness ==
  /\ mindMap # <<>>
  /\ \E i, j \in 1..Len(nodes) :
       /\ mindMap[1].par[j] = i
       /\ Len(children(mindMap[1], j)) > 0
       /\ requiredHeight[j] = estimateSelfHeight(mindMap[1], expandedNodes, j)
       /\ requiredHeight[j]
            > childrenHeight(mindMap[1], requiredHeight, j)
                + Len(children(mindMap[1], j)) * minGap
       /\ requiredHeight[i]
            = childrenHeight(mindMap[1], requiredHeight, i)
                + Len(children(mindMap[1], i)) * minGap
       /\ requiredHeight[i] > estimateSelfHeight(mindMap[1], expandedNodes, i)

\* C20: in the layout shown (after the second collision pass) every node
\* with children is at the mean of the y of its children.
C20_ParentsAtMeanOfChildren ==
  mindMap # <<>> =>
    \A i \in 1..Len(nodes) :
      LET kids == children(mindMap[1], i) IN
      Len(kids) > 0 =>
        Len(kids) * nodes[i].position.y
          = Sum(AsTuple([k \in 1..Len(kids) |-> nodes[kids[k]].position.y]))

\* y of every node after the first collision pass, before the recentering
collidedY(m, E, req) == runCollisionPass(m, E, placedY(m, req))

\* C21: right after the recentering pass (before the second collision
\* pass) every node with children, at every level, is at the mean of the y
\* its children then have, and every node without children is where the
\* first collision pass left it.
C21_RecenteredAtMean ==
  mindMap # <<>> =>
    \A m \in {mindMap[1]} :
    \A before \in {collidedY(m, expandedNodes, requiredHeight)} :
    \A after \in {recenter(m, before)} :
      /\ after = recenteredY(m, expandedNodes, requiredHeight)
      /\ \A i \in 1..Len(m.par) :
           LET kids == children(m, i) IN
           IF Len(kids) > 0
             THEN Len(kids) * after[i]
                    = Sum(AsTuple([k \in 1..Len(kids) |-> after[kids[k]]]))
             ELSE after[i] = before[i]

\* a node two levels above a leaf that the recentering moved, in a layout
\* the second collision pass then changed
C21_Witness ==
  /\ mindMap # <<>>
  /\ LET m == mindMap[1]
         before == collidedY(m, expandedNodes, requiredHeight)
         after == recenteredY(m, expandedNodes, requiredHeight)
     IN /\ \E i, j \in 1..Len(m.par) :
             /\ m.par[j] = i
             /\ Len(children(m, j)) > 0
             /\ after[j] # before[j]
             /\ after[i] # before[i]
        /\ \E i \in 1..Len(m.par) : nodes[i].position.y # after[i]

\* C22: every move of a collision pass (both passes of the layout shown)
\* is downwards (dy > 0), moves the node and every node below it (those
\* with the node among their ancestors) by exactly dy, and moves no other
\* node; so a pass leaves no node above where it found it.
C22_ShiftMovesSubtreeDown ==
  mindMap # <<>> =>
    \A t \in {passesOf(mindMap[1], expandedNodes, requiredHeight)} :
      /\ \A j \in 1..Len(nodes) :
           /\ nodes[j].position.y = t.second.y[j]
           /\ t.first.y[j] >= t.placed[j]
           /\ t.second.y[j] >= t.recentered[j]
      /\ \A n \in 1..Len(t.first.shifts \o t.second.shifts) :
           \A s \in {(t.first.shifts \o t.second.shifts)[n]} :
             /\ s.dy > 0
             /\ \A j \in 1..Len(s.from) :
                  s.to[j] - s.from[j]
                    = IF s.id \in Path(mindMap[1].par, j) THEN s.dy ELSE 0

\* a move of a node that has a grandchild, in a layout with more than two
\* moves
C22_Witness ==
  /\ mindMap # <<>>
  /\ \E t \in {passesOf(mindMap[1], expandedNodes, requiredHeight)} :
       /\ Len(t.first.shifts) + Len(t.second.shifts) > 2
       /\ \E n \in 1..Len(t.first.shifts) :
            \E j \in 1..Len(nodes) :
              /\ mindMap[1].par[j] # 0
              /\ mindMap[1].par[mindMap[1].par[j]] = t.first.shifts[n].id
              /\ t.first.shifts[n].to[j]
                   = t.first.shifts[n].from[j] + t.first.shifts[n].dy

\* the band add is given for every node, as <<top, bottom>>
bands(m, req) ==
  CHOOSE r \in {AsTuple([i \in 1..Len(m.par) |->
                           <<ay[i], ay[i] + allocatedH(m, req, i)>>]) :
                  ay \in {allocatedY(m, req)}} : TRUE

\* C23: after the top-down placement, before any collision pass, the band
\* of every node is as high as its required height; the bands of the
\* children of a node follow each other in the order of the child list
\* without overlap, inside the band of the parent; the bands of the roots
\* follow each other without overlap; every node is at the centre of its
\* band.
C23_BandsNestedInOrder ==
  mindMap # <<>> =>
    \A m \in {mindMap[1]} :
    \A b \in {bands(m, requiredHeight)} :
    \A y \in {placedY(m, requiredHeight)} :
      /\ \A i \in ids(m) :
           /\ b[i][2] - b[i][1] = calcHeight(m, expandedNodes, i)
           /\ 2 * y[i] = Scale * (b[i][1] + b[i][2])
           /\ m.par[i] # 0 =>
                /\ b[m.par[i]][1] <= b[i][1]
                /\ b[i][2] <= b[m.par[i]][2]
      /\ \A i, j \in ids(m) :
           (i < j /\ m.par[i] = m.par[j]) =>
             /\ b[i][2] <= b[j][1]
             /\ m.par[i] = 0 => b[i][2] < b[j][1]

\* two roots, the first with two children of which one is expanded with a
\* description
C23_Witness ==
  /\ mindMap # <<>>
  /\ Len(roots(mindMap[1])) >= 2
  /\ Len(children(mindMap[1], 1)) >= 2
  /\ \E i \in expandedNodes :
       /\ i \in ids(mindMap[1])
       /\ mindMap[1].par[i] = 1
       /\ mindMap[1].desc[i] > 0
       /\ bands(mindMap[1], requiredHeight)[i][2]
            - bands(mindMap[1], requiredHeight)[i][1] > 100

\* the number of edges between node i and the root above it
depth(m, i) == Cardinality(Path(m.par, i)) - 2

\* C24: every node shown, after the collision passes and the recentering,
\* has x = baseX + level * horizontalSpacing where level is its distance
\* from its root, so nodes of the same depth have the same x; the passes
\* have changed y only.
C24_ColumnByDepth ==
  mindMap # <<>> =>
    LET m == mindMap[1] IN
    /\ Len(nodes) = Len(m.par)
    /\ \A i \in ids(m) :
         /\ nodes[i].level = depth(m, i)
         /\ nodes[i].position.x
              = Scale * (baseX + depth(m, i) * horizontalSpacing)
    /\ \A i, j \in ids(m) :
         depth(m, i) = depth(m, j) => nodes[i].position.x = nodes[j].position.x

\* a node two levels below its root that the passes have moved from where
\* the placement put it, and a second node of its depth
C24_Witness ==
  /\ mindMap # <<>>
  /\ \E i, j \in 1..Len(nodes) :
       /\ i # j
       /\ depth(mindMap[1], i) = 2
       /\ depth(mindMap[1], j) = 2
       /\ nodes[i].position.y # placedY(mindMap[1], requiredHeight)[i]

\* every description length up to the longest of the maps
Lengths == 0..(CHOOSE d \in DescLens : \A e \in DescLens : e <= d)

\* the number of lines of charsPerLine characters a text of length L fills
IsLineCount(L, n) ==
  /\ n >= 0
  /\ charsPerLine * n >= L
  /\ n > 0 => charsPerLine * (n - 1) < L

\* the estimate of every length: the baseline when not expanded or empty,
\* else min(baseline + padding + lines * lineHeight + safety, 328); between
\* the baseline and 328; not decreasing with the length
EstimateTable ==
  \A L \in Lengths :
    /\ estimateHeight(L, FALSE) = baseCollapsed
    /\ L = 0 => estimateHeight(L, TRUE) = baseCollapsed
    /\ L > 0 =>
         \E n \in {L \div charsPerLine, L \div charsPerLine + 1} :
           /\ IsLineCount(L, n)
           /\ LET raw == baseCollapsed + padding + n * lineHeight + SAFETY IN
              estimateHeight(L, TRUE)
                = IF raw <= 328 THEN raw ELSE 328
    /\ estimateHeight(L, TRUE) >= baseCollapsed
    /\ estimateHeight(L, TRUE) <= 328
    /\ L > 0 => estimateHeight(L - 1, TRUE) <= estimateHeight(L, TRUE)

\* C25: the estimate is the baseline for a node that is not expanded or has
\* no description; for an expanded node with a description of length L it
\* is min(baseline + padding + lines * lineHeight + safety, maximum) with
\* lines = ceil(L / charsPerLine); it is never below the baseline, never
\* above the maximum, does not decrease when L grows, and the maximum is
\* baseline + padding + MAX_DESC_HEIGHT.  The estimate of every node of the
\* map shown is the one of its description length and expansion.
C25_EstimateFormula ==
  /\ MAX_HEIGHT = baseCollapsed + padding + 220
  /\ MAX_DESC_HEIGHT = 220
  /\ EstimateTable
  /\ mindMap # <<>> =>
       \A i \in ids(mindMap[1]) :
         /\ mindMap[1].desc[i] \in Lengths
         /\ estimateSelfHeight(mindMap[1], expandedNodes, i)
              = estimateHeight(mindMap[1].desc[i], i \in expandedNodes)
         /\ estimateSelfHeight(mindMap[1], expandedNodes, i) \in 72..328

\* an expanded node whose estimate is the maximum, and a node with a
\* description that is not expanded
C25_Witness ==
  /\ mindMap # <<>>
  /\ \E j, k \in ids(mindMap[1]) :
       /\ j \in expandedNodes
       /\ k \notin expandedNodes
       /\ mindMap[1].desc[k] > 0
       /\ estimateSelfHeight(mindMap[1], expandedNodes, k) = 72
       /\ estimateSelfHeight(mindMap[1], expandedNodes, j) = 328

\* C26: after any sequence of data arrivals and toggles, what is shown is
\* what the current map and the current expandedNodes alone give: nothing
\* before the first map; then one node per node of the map, at the column
\* of its level and at the y the sizing, the placement, the two collision
\* passes and the recentering give from heights computed anew, flagged
\* expanded exactly when in expandedNodes; and one edge per node that has a
\* parent, from that parent.
C26_ShownFromMapAndExpansion ==
  /\ mindMap = <<>> => nodes = <<>> /\ edges = <<>>
  /\ mindMap # <<>> =>
       LET m == mindMap[1]
           req == AsTuple([i \in ids(m) |-> calcHeight(m, expandedNodes, i)])
           y == finalY(m, expandedNodes, req)
           lv == levelOf(m)
           linked == {i \in ids(m) : m.par[i] # 0}
       IN /\ Len(nodes) = Len(m.par)
          /\ \A i \in ids(m) :
               /\ nodes[i].id = i
               /\ nodes[i].position.y = y[i]
               /\ nodes[i].position.x = Scale * (baseX + lv[i] * horizontalSpacing)
               /\ nodes[i].isExpanded = (i \in expandedNodes)
          /\ Len(edges) = Cardinality(linked)
          /\ {<<edges[k].source, edges[k].target>> : k \in 1..Len(edges)}
               = {<<m.par[i], i>> : i \in linked}

\* two nodes expanded, and the last click collapsed a third and changed the
\* layout
C26_Witness ==
  /\ mindMap # <<>>
  /\ Cardinality(expandedNodes) >= 2
  /\ lastToggled > 0
  /\ lastToggled \notin expandedNodes
  /\ shown[1].nodes # nodes
  /\ \E i \in 1..Len(nodes) :
       shown[1].nodes[i].position.y # nodes[i].position.y

\* ----------------------------------------------- coordinator claims, more
\* C27: the step that processes completed = true issues no poll request and
\* leaves status and mapData as they are; from then on, for as long as the
\* session lasts (the view stays open on the thread), status, mapData and
\* the last-payload hash keep their values, no request is issued and no
\* timer is set: the response of a request that was in flight at the
\* completion is dropped.
C27_CompletedFreezesState ==
  [][/\ phase' = "completed" /\ phase # "completed" =>
          /\ polls' \subseteq polls
          /\ UNCHANGED <<status, mapData>>
     /\ phase = "completed" /\ cur' = cur =>
          /\ UNCHANGED <<status, mapData, lastPayloadRef>>
          /\ polls' \subseteq polls
          /\ timers' \subseteq timers]_vars

\* completed was processed while the first poll of the session was in
\* flight and status was false; the answer has arrived since, and status
\* is still false, the hash still empty
C27_Witness ==
  /\ phase = "completed" /\ open /\ nsess = 1
  /\ status = "false"
  /\ initialFetch # <<>>
  /\ polls = {} /\ timers = {} /\ stale = {}
  /\ lastPayloadRef = <<>>

\* C28: once status is true with data present in a session whose initial
\* fetch has been processed, no step of that session (a poll response, a
\* poll failure, a progress event) makes status false or undefined: Ready
\* is left only when the session ends.
C28_ReadyLeftOnlyByStop ==
  [][/\ status = "true" /\ mapData # 0
     /\ phase \in {"polling", "completed", "noflow"}
     /\ cur' = cur
     => status' = "true"]_vars

C29_ReadyHasDataIfAnswered == status = "true" => mapData # 0 /\ mapData \in Data

\* C30: the answer to the initial fetch of a run whose view was closed,
\* unmounted or switched to another thread in the meantime (the run is no
\* longer the current one) changes none of initialFetch, message, status and
\* mapData, nor the hash, creates no socket and starts no poll loop: flag,
\* requests and timers stay as they are, also when a new run is current.
C30_CancelledFetchChangesNothing ==
  [][\A s \in fetching \ fetching' :
       s # cur =>
         UNCHANGED <<initialFetch, message, status, mapData, lastPayloadRef,
                     showMessage, socketRef, connected, listening,
                     pollingActiveRef, pollingTimeoutRef, polls, timers>>]_vars

\* the fetch of run 1 was answered while run 2 was the current one; run 2
\* polls with its own socket and no loop of run 1 exists
C30_Witness ==
  /\ dropped = <<1, 2>>
  /\ cur = 2 /\ phase = "polling"
  /\ socketRef = 2 /\ connected = {2}
  /\ pollingActiveRef
  /\ polls \cup timers = {2}

====
